---- MODULE Spec2Model ----
(***************************************************************************)
(* Model of fairscale/optim/oss_reduce_wrap.py: ModelDispatch, the         *)
(* gradient reduction / bucketing engine that goes with a sharded          *)
(* optimizer.  One process per rank; every process holds its own copy of   *)
(* the parameters' gradient slots and its own reduce buffers, and the      *)
(* processes meet only in the collective reduce operations of the          *)
(* transport (torch.distributed).                                          *)
(*                                                                         *)
(* Tensors are sequences of integers.  Values are fixed-point numbers      *)
(* with unit Unit == WorldSize^MaxCalls, so that every division by         *)
(* world_size the program performs within MaxCalls dispatch calls is exact *)
(* and div_ can be modelled by integer division.                           *)
(***************************************************************************)
EXTENDS Integers, Sequences, FiniteSets, TLC

\* ---------------------------------------------------------------- bounds
WorldSize == 2
MaxCalls == 2

\* element counts of the model's parameters, parameter p has Sizes[p] elements
Sizes == <<1, 2, 3>>
\* devices a parameter can live on
Devices == {1, 2}
\* values of the buffer_size argument of the constructor
Ceilings == {3, 8}
\* numbers of non-gradient buffers (base_model.buffers()) a model can have
BufferCounts == {0, 2}
\* numbers of inputs a forward call can be given
InputCounts == {1, 2, 3}

Ranks == 0 .. (WorldSize - 1)

\* The threads that call into the instances: thread q is the thread the training
\* loop of process q runs in, thread WorldSize a second thread of process 0.
Threads == Ranks \cup {WorldSize}
RankOf(t) == t % WorldSize
Params == 1 .. Len(Sizes)
Numel(p) == Sizes[p]

RECURSIVE Pow(_, _)
Pow(b, e) == IF e = 0 THEN 1 ELSE b * Pow(b, e - 1)
Unit == Pow(WorldSize, MaxCalls)

\* an absent gradient (p.grad is None)
None == <<>>

Range(s) == {s[i] : i \in DOMAIN s}
Min(a, b) == IF a < b THEN a ELSE b

RECURSIVE SumSet(_, _)
SumSet(S, f) ==
    IF S = {} THEN 0
    ELSE LET x == CHOOSE y \in S : TRUE IN f[x] + SumSet(S \ {x}, f)

\* torch.zeros(n) / torch.zeros_like(p)
Zeros(n) == [i \in 1 .. n |-> 0]

\* the local gradient the backward pass left on rank r for element j of p
GradValue(r, p, j) == Unit * ((r + 1) * 10 + 3 * p + j)
LocalGrad(r, p) == [j \in 1 .. Numel(p) |-> GradValue(r, p, j)]

\* the ascending sort of a set of parameters by (element count, id)
RECURSIVE SortedSeq(_)
SortedSeq(S) ==
    IF S = {} THEN <<>>
    ELSE LET m == CHOOSE x \in S :
                    \A y \in S : Numel(x) < Numel(y) \/ (Numel(x) = Numel(y) /\ x <= y)
         IN <<m>> \o SortedSeq(S \ {m})

\* the elements of S in the order in which they occur in the sequence ord
RECURSIVE Restrict(_, _)
Restrict(ord, S) ==
    IF ord = <<>> THEN <<>>
    ELSE IF Head(ord) \in S THEN <<Head(ord)>> \o Restrict(Tail(ord), S)
         ELSE Restrict(Tail(ord), S)

RECURSIVE SortedDevices(_)
SortedDevices(S) ==
    IF S = {} THEN <<>>
    ELSE LET m == CHOOSE x \in S : \A y \in S : x <= y IN <<m>> \o SortedDevices(S \ {m})

\* every order of the parameters, as a sequence
Orders ==
    {[i \in Params |-> o[i]] :
        o \in {f \in [Params -> Params] : \A a, b \in Params : a # b => f[a] # f[b]}}

\* -------------------------------------------------------------- transport
\* _get_global_rank: the group is the WORLD group, the rank is its own global rank
GetGlobalRank(rank) == rank

\* references to the tensors handed to dist.reduce
BufRef(d, rank) == [kind |-> "buffer", d |-> d, r |-> rank, p |-> 0]
GradRef(p) == [kind |-> "grad", d |-> 0, r |-> 0, p |-> p]


\* ------------------------------------------------------------------ state
VARIABLES
    per_device_params,   \* sharded_optimizer.per_device_params: device -> rank -> list of parameters
    param_owner,         \* the rank whose list holds each parameter
    param_device,        \* the device each parameter lives on
    buffer_size_arg,     \* the buffer_size argument of ModelDispatch.__init__
    param_dtype,         \* p.dtype of every parameter
    grad_requires_grad,  \* per process: p.grad.requires_grad of every parameter
    pc,                  \* per thread: where the thread is
    grad,                \* per process: p.grad of every parameter (None or a tensor)
    reduce_buffers,      \* per process: self._reduce_buffers, device -> rank -> tensor
    buffer_dtype,        \* per process: dtype of the buffers of each device
    dev_idx,             \* per thread: position of dispatch_grads' loop over the devices
    bucket_requests,     \* per thread: _reduce_grads_task's list of (handle, rank)
    requests,            \* per thread: _reduce_grads_task's list of handles
    next_bucket,         \* per thread: position of the loop over bucket_requests
    next_request,        \* per thread: position of the map over requests
    call_of,             \* history, per thread: the number of the call the thread is in
    log,                 \* per process: every reduce the process handed to the transport, in order
    done,                \* transport: the collectives (positions of the logs) that have completed
    calls,               \* per process: number of dispatch_grads calls started
    call_start,          \* history, per process: length of the log when the current call started
    waited,              \* history, per process: how often each handle was waited on
    wait_at,             \* history, per process: the length of the log when each handle was waited on
    packed_from,         \* history, per process: the buffers as they were when a call began to pack them
    pre,                 \* history, per process: the gradient slots at the start of each call
    pack_slices,         \* history, per process: the buffer slices written while packing
    unpack_slices,       \* history, per process: the buffer slices read while unpacking, in order
    overlap,             \* history, per process: a buffer was written while a reduce held it
    broadcast_buffers,   \* self.broadcast_buffers
    reference_rank,      \* the reference_rank argument of ModelDispatch.__init__
    n_inputs,            \* the number of inputs the training loop gives the model
    model_buffers,       \* per process: the values of base_model.buffers()
    bcast_log,           \* per process: every broadcast the process handed to the transport
    bcast_done,          \* transport: the broadcasts (positions of the logs) that have completed
    bcast_waited,        \* history, per process: how often each broadcast handle was waited on
    sync_requests,       \* per process: the requests ModelDispatch.wait is waiting on
    sync_next,           \* per process: position of the map over the requests
    sync_calls,          \* history, per process: the calls of sync_buffers
    program,             \* the calls of the training loop, as far as some process has run it
    steps,               \* per process: how many calls of the training loop it has made
    ctx,                 \* per process: inputs of the forward whose DispatchLayer node awaits backward
    grad_outputs,        \* per process: the gradients autograd handed to DispatchLayer.backward
    backward_returns     \* history, per process: what DispatchLayer.backward was given and returned

vars == <<per_device_params, param_owner, param_device, buffer_size_arg, param_dtype, grad_requires_grad, pc, grad,
          reduce_buffers, buffer_dtype, dev_idx, bucket_requests, requests, next_bucket,
          next_request, call_of, log, done, calls, call_start, waited, wait_at, packed_from, pre,
          pack_slices, unpack_slices, overlap, broadcast_buffers, reference_rank, n_inputs,
          model_buffers, bcast_log, bcast_done, bcast_waited, sync_requests, sync_next,
          sync_calls, program, steps, ctx, grad_outputs, backward_returns>>

\* the state of buffer synchronisation and of the autograd node
wrap_vars == <<broadcast_buffers, reference_rank, n_inputs, model_buffers, bcast_log, bcast_done,
               bcast_waited, sync_requests, sync_next, sync_calls, program, steps, ctx,
               grad_outputs, backward_returns>>

config == <<per_device_params, param_owner, param_device, buffer_size_arg, param_dtype,
            grad_requires_grad>>

\* the devices of per_device_params, in the order dict.items() yields them
DeviceSeq == SortedDevices(DOMAIN per_device_params)


\* ---------------------------------------------------------- construction
\* the deviations from the regular case (every gradient present, no gradient
\* requiring grad, every parameter float32) an initial state can have
Anomalies ==
    {[kind |-> "none", q |-> 0, p |-> 0]}
    \cup {[kind |-> "absent", q |-> q, p |-> p] : q \in {0, WorldSize}, p \in Params}
    \cup {[kind |-> "requires_grad", q |-> WorldSize, p |-> p] : p \in Params}
    \cup {[kind |-> "dtype", q |-> 0, p |-> p] : p \in Params}

\* the anomaly a concerns process q (q = WorldSize in the anomaly: every process)
Hits(a, kind, q, p) == a.kind = kind /\ a.p = p /\ a.q \in {q, WorldSize}

\* The assignments of the parameters to devices.  per_device_params is a dict
\* filled in the order of the parameters, so the devices are numbered in the
\* order in which the parameters first name them.
DeviceMaps ==
    {dm \in [Params -> Devices] :
        \A p \in Params : \A d \in Devices :
            d < dm[p] => \E p2 \in Params : p2 < p /\ dm[p2] = d}

BufferSizeNoMin(buffer_size) == buffer_size

\* __init__, line 56: never a bigger buffer than the number of model params
BufferSize(buffer_size) == Min(buffer_size, SumSet(Params, Sizes))

\* __init__, line 61: per_device[0][0] exists (an IndexError otherwise)
FirstParamExists(per_device) == Len(per_device[0]) > 0

BufferDtypeLast(per_device, dtypes) == dtypes[per_device[0][Len(per_device[0])]]

\* __init__, line 61: buffer_dtype = per_device[0][0].dtype
BufferDtype(per_device, dtypes) == dtypes[per_device[0][1]]

DeviceBuffersUninitialized(per_device, buffer_size) ==
    [r \in DOMAIN per_device |-> [i \in 1 .. buffer_size |-> Unit]]

\* __init__, line 62-64: one zeroed buffer per rank
DeviceBuffers(per_device, buffer_size) == [r \in DOMAIN per_device |-> Zeros(buffer_size)]

\* ModelDispatch.__init__, line 54-64: the object it leaves behind, or the failure
Constructed(pdp, buffer_size, dtypes) ==
    IF \A d \in DOMAIN pdp : FirstParamExists(pdp[d])
    THEN [pc |-> "idle",
          reduce_buffers |-> [d \in DOMAIN pdp |-> DeviceBuffers(pdp[d], BufferSize(buffer_size))],
          buffer_dtype |-> [d \in DOMAIN pdp |-> BufferDtype(pdp[d], dtypes)]]
    ELSE [pc |-> "ctor_failed", reduce_buffers |-> <<>>, buffer_dtype |-> <<>>]

\* the value of buffer i of the model on process q before any synchronisation
BufferValue(q, i) == 100 * (q + 1) + i

\* the models and arguments an instance is built on: the constructor's defaults
\* on a model without buffers, and every other case
DefaultWrap == [broadcast_buffers |-> TRUE, reference_rank |-> 0, n_buffers |-> 0, n_inputs |-> 1]
Wraps == [broadcast_buffers : BOOLEAN, reference_rank : Ranks, n_buffers : BufferCounts,
          n_inputs : InputCounts]

\* The state after every process has run the constructor on the same partition.
InitWith(orders, devicemaps, owners, anomalies, wraps) ==
    \E ord \in orders, device \in devicemaps, owner \in owners,
       ceiling \in Ceilings, a \in anomalies, w \in wraps :
        /\ broadcast_buffers = w.broadcast_buffers
        /\ reference_rank = w.reference_rank
        /\ n_inputs = w.n_inputs
        /\ model_buffers = [q \in Ranks |-> [i \in 1 .. w.n_buffers |-> BufferValue(q, i)]]
        /\ bcast_log = [q \in Ranks |-> <<>>]
        /\ bcast_done = {}
        /\ bcast_waited = [q \in Ranks |-> <<>>]
        /\ sync_requests = [q \in Ranks |-> <<>>]
        /\ sync_next = [q \in Ranks |-> 1]
        /\ sync_calls = [q \in Ranks |-> <<>>]
        /\ program = <<>>
        /\ steps = [q \in Ranks |-> 0]
        /\ ctx = [q \in Ranks |-> 0]
        /\ grad_outputs = [q \in Ranks |-> <<>>]
        /\ backward_returns = [q \in Ranks |-> <<>>]
        /\ per_device_params =
              [d \in {device[p] : p \in Params} |->
                  [r \in Ranks |-> Restrict(ord, {p \in Params : device[p] = d /\ owner[p] = r})]]
        /\ param_owner = owner
        /\ param_device = device
        /\ buffer_size_arg = ceiling
        /\ param_dtype = [p \in Params |-> IF Hits(a, "dtype", 0, p) THEN "float16" ELSE "float32"]
        /\ grad_requires_grad = [q \in Ranks |-> [p \in Params |-> Hits(a, "requires_grad", q, p)]]
        /\ grad = [q \in Ranks |-> [p \in Params |->
                      IF Hits(a, "absent", q, p) THEN None ELSE LocalGrad(q, p)]]
        /\ pc = [t \in Threads |-> Constructed(per_device_params, ceiling, param_dtype).pc]
        /\ reduce_buffers =
              [q \in Ranks |-> Constructed(per_device_params, ceiling, param_dtype).reduce_buffers]
        /\ buffer_dtype =
              [q \in Ranks |-> Constructed(per_device_params, ceiling, param_dtype).buffer_dtype]
        /\ dev_idx = [t \in Threads |-> 0]
        /\ bucket_requests = [t \in Threads |-> <<>>]
        /\ requests = [t \in Threads |-> <<>>]
        /\ next_bucket = [t \in Threads |-> 1]
        /\ next_request = [t \in Threads |-> 1]
        /\ call_of = [t \in Threads |-> 0]
        /\ log = [q \in Ranks |-> <<>>]
        /\ done = {}
        /\ calls = [q \in Ranks |-> 0]
        /\ call_start = [q \in Ranks |-> 0]
        /\ waited = [q \in Ranks |-> <<>>]
        /\ wait_at = [q \in Ranks |-> <<>>]
        /\ packed_from = [q \in Ranks |-> {}]
        /\ pre = [q \in Ranks |-> <<>>]
        /\ pack_slices = [q \in Ranks |-> {}]
        /\ unpack_slices = [q \in Ranks |-> <<>>]
        /\ overlap = [q \in Ranks |-> FALSE]

\* the sharded optimizer hands over every rank's list sorted by increasing size
Init == InitWith({SortedSeq(Params)}, DeviceMaps, [Params -> Ranks], Anomalies, {DefaultWrap})

\* the same, with the lists in an arbitrary order
InitAnyOrder ==
    InitWith(Orders, DeviceMaps, [Params -> Ranks], {a \in Anomalies : a.kind = "none"},
             {DefaultWrap})

\* no gradient requires grad, every parameter float32; process 0 may lack a gradient
InitNoError ==
    InitWith({SortedSeq(Params)}, DeviceMaps, [Params -> Ranks],
             {a \in Anomalies : a.kind = "none" \/ (a.kind = "absent" /\ a.q = 0)},
             {DefaultWrap})

\* the regular case on instances whose parameters all live on one device and are
\* all owned by process 0
InitOneDevice ==
    InitWith({SortedSeq(Params)}, {dm \in DeviceMaps : \A p \in Params : dm[p] = dm[1]},
             {[p \in Params |-> 0]}, {a \in Anomalies : a.kind = "none"}, {DefaultWrap})

\* instances with one device and a buffer_size above the size of the model, on
\* every model and with every argument
InitWrap ==
    /\ InitWith({SortedSeq(Params)}, {dm \in DeviceMaps : \A p \in Params : dm[p] = dm[1]},
                {[p \in Params |-> 0]}, {a \in Anomalies : a.kind = "none"}, Wraps)
    /\ \A c \in Ceilings : buffer_size_arg >= c

\* ------------------------------------------------------ _reduce_grads_task
CopyInAtStart(buffer, offset, end, src) ==
    [k \in DOMAIN buffer |-> IF k <= end - offset THEN src[k] ELSE buffer[k]]

\* buffer[offset:end].copy_(src)
CopyIn(buffer, offset, end, src) ==
    [k \in DOMAIN buffer |-> IF offset < k /\ k <= end THEN src[k - offset] ELSE buffer[k]]

\* buffer[offset:end]
Slice(buffer, offset, end) == [j \in 1 .. (end - offset) |-> buffer[offset + j]]

\* tensor.div_(world_size)
DivTensor(t, world_size) == [k \in DOMAIN t |-> t[k] \div world_size]

ZeroFillOnes(grads, params) ==
    [p \in Params |-> IF p \in Range(params) /\ grads[p] = None
                      THEN [i \in 1 .. Numel(p) |-> Unit] ELSE grads[p]]

\* line 104-106: an absent gradient becomes torch.zeros_like(p)
ZeroFill(grads, params) ==
    [p \in Params |-> IF p \in Range(params) /\ grads[p] = None THEN Zeros(Numel(p)) ELSE grads[p]]

PackGuardNoLimit(params, i_bucketed, offset, buffer_size) == i_bucketed < Len(params)

PackGuardInclusive(params, i_bucketed, offset, buffer_size) ==
    /\ i_bucketed < Len(params)
    /\ offset + Numel(params[i_bucketed + 1]) <= buffer_size

\* line 115: the condition of the packing loop
PackGuard(params, i_bucketed, offset, buffer_size) ==
    /\ i_bucketed < Len(params)
    /\ offset + Numel(params[i_bucketed + 1]) < buffer_size

RECURSIVE PackLoopSkipAbsent(_, _, _, _, _, _, _)
PackLoopSkipAbsent(params, grads, buffer, buffer_size, i_bucketed, offset, slices) ==
    IF /\ PackGuard(params, i_bucketed, offset, buffer_size)
       /\ grads[params[i_bucketed + 1]] # Zeros(Numel(params[i_bucketed + 1]))
    THEN LET end == offset + Numel(params[i_bucketed + 1])
         IN PackLoopSkipAbsent(params, grads,
                               CopyIn(buffer, offset, end, grads[params[i_bucketed + 1]]),
                               buffer_size, i_bucketed + 1, end,
                               slices \cup {<<offset, end, params[i_bucketed + 1]>>})
    ELSE [buffer |-> buffer, i_bucketed |-> i_bucketed, offset |-> offset, slices |-> slices]

\* line 115-119: the packing loop
RECURSIVE PackLoop(_, _, _, _, _, _, _)
PackLoop(params, grads, buffer, buffer_size, i_bucketed, offset, slices) ==
    IF PackGuard(params, i_bucketed, offset, buffer_size)
    THEN LET end == offset + Numel(params[i_bucketed + 1])
         IN CHOOSE r \in {PackLoop(params, grads, b1, buffer_size, i_bucketed + 1, end,
                                    slices \cup {<<offset, end, params[i_bucketed + 1]>>}) :
                              b1 \in {CopyIn(buffer, offset, end, grads[params[i_bucketed + 1]])}} :
                TRUE
    ELSE [buffer |-> buffer, i_bucketed |-> i_bucketed, offset |-> offset, slices |-> slices]

ScaleBucketTwice(buffer) == DivTensor(DivTensor(buffer, WorldSize), WorldSize)

\* line 122: buffer.div_(world_size)
ScaleBucket(buffer) == DivTensor(buffer, WorldSize)

\* line 136: p.grad.div_(world_size)
ScaleGrad(g) == DivTensor(g, WorldSize)

SuffixFromStart(params, i_bucketed) == params

\* line 131: params[i_bucketed:]
Suffix(params, i_bucketed) == SubSeq(params, i_bucketed + 1, Len(params))

MustRaiseNever(q, p) == FALSE

\* line 133: the check of the direct reduce
MustRaise(q, p) == grad_requires_grad[q][p]

\* line 131-137: the loop over the parameters that were not packed
RECURSIVE SuffixLoop(_, _, _, _, _, _)
SuffixLoop(s, rest, i, rank, q, call) ==
    IF i > Len(rest) THEN s
    ELSE LET p == rest[i] IN
         IF MustRaise(q, p)
         THEN [s EXCEPT !.raised = TRUE]
         ELSE CHOOSE r \in {SuffixLoop(s1, rest, i + 1, rank, q, call) :
                s1 \in {[s EXCEPT !.grad[p] = ScaleGrad(@),
                                  !.log = Append(@, [dst |-> GetGlobalRank(rank),
                                                     t |-> GradRef(p),
                                                     call |-> call, covers |-> {p}]),
                                  !.requests = Append(@, Len(s.log) + 1)]}} : TRUE

\* line 121-137: the bucket reduce of the packed prefix pk, then the direct reduces
RankSubmit(s, d, rank, q, call, params, g1, pk) ==
    LET packed == pk.i_bucketed > 0
        held == \E h \in 1 .. Len(s.log) : s.log[h].t = BufRef(d, rank) /\ h \notin done
    IN CHOOSE r \in {SuffixLoop(s1, Suffix(params, pk.i_bucketed), 1, rank, q, call) : s1 \in {
         [s EXCEPT
            !.grad = g1,
            !.buffers[rank] = IF packed THEN ScaleBucket(pk.buffer) ELSE pk.buffer,
            !.log = IF packed
                    THEN Append(@, [dst |-> GetGlobalRank(rank), t |-> BufRef(d, rank),
                                    call |-> call,
                                    covers |-> {params[i] : i \in 1 .. pk.i_bucketed}])
                    ELSE @,
            !.bucket_requests =
                    IF packed THEN Append(@, [handle |-> Len(s.log) + 1, rank |-> rank])
                    ELSE @,
            !.slices = @ \cup {[d |-> d, r |-> rank, off |-> sl[1], end |-> sl[2], p |-> sl[3]] :
                                  sl \in pk.slices},
            !.packed_from = IF packed
                            THEN @ \cup {[call |-> call, d |-> d, r |-> rank,
                                          buffer |-> s.buffers[rank]]}
                            ELSE @,
            !.overlap = @ \/ (packed /\ held)]}} : TRUE

\* line 111-119: pack the gradients g1 of the list into the buffer of the rank
\* (a singleton set binds a value that is computed once)
RankPack(s, d, rank, q, call, params, g1) ==
    CHOOSE r \in {RankSubmit(s, d, rank, q, call, params, g1, pk) :
                     pk \in {PackLoop(params, g1, s.buffers[rank], s.buffer_size, 0, 0, {})}} : TRUE

RankBodySkipAbsent(s, d, rank, q, call) ==
    IF \A i \in 1 .. Len(per_device_params[d][rank]) : s.grad[per_device_params[d][rank][i]] = None
    THEN s
    ELSE CHOOSE r \in {RankPack(s, d, rank, q, call, per_device_params[d][rank], g1) :
                          g1 \in {ZeroFill(s.grad, per_device_params[d][rank])}} : TRUE

\* line 99-137: one iteration of the loop over the ranks
RankBody(s, d, rank, q, call) ==
    IF Len(per_device_params[d][rank]) = 0 THEN s
    ELSE CHOOSE r \in {RankPack(s, d, rank, q, call, per_device_params[d][rank], g1) :
                          g1 \in {ZeroFill(s.grad, per_device_params[d][rank])}} : TRUE

\* line 99: the loop over the ranks; an exception ends it
RECURSIVE RankLoop(_, _, _, _, _)
RankLoop(s, d, rank, q, call) ==
    IF rank >= WorldSize \/ s.raised THEN s
    ELSE CHOOSE r \in {RankLoop(s1, d, rank + 1, q, call) :
                          s1 \in {RankBody(s, d, rank, q, call)}} : TRUE

AfterSkipRequests(nb, buckets, nr, reqs, di) ==
    IF nb <= Len(buckets) THEN [pc |-> "wait_bucket", dev |-> di]
    ELSE IF di < Len(DeviceSeq) THEN [pc |-> "reduce", dev |-> di + 1]
    ELSE [pc |-> "idle", dev |-> di]

AfterSkipBuckets(nb, buckets, nr, reqs, di) ==
    IF nr <= Len(reqs) THEN [pc |-> "wait_request", dev |-> di]
    ELSE IF di < Len(DeviceSeq) THEN [pc |-> "reduce", dev |-> di + 1]
    ELSE [pc |-> "idle", dev |-> di]

\* where the task, and dispatch_grads' loop over the devices, goes on after a step
After(nb, buckets, nr, reqs, di) ==
    IF nb <= Len(buckets) THEN [pc |-> "wait_bucket", dev |-> di]
    ELSE IF nr <= Len(reqs) THEN [pc |-> "wait_request", dev |-> di]
    ELSE IF di < Len(DeviceSeq) THEN [pc |-> "reduce", dev |-> di + 1]
    ELSE [pc |-> "idle", dev |-> di]

\* _reduce_grads_task, line 95-137, run by thread t of process q on device
\* number di: pack, scale and submit every reduce of the device
TaskSubmit(t, q, di, call) ==
    LET d == DeviceSeq[di]
        s0 == [grad |-> grad[q], buffers |-> reduce_buffers[q][d],
               buffer_size |-> Len(reduce_buffers[q][d][0]),
               log |-> log[q], bucket_requests |-> <<>>, requests |-> <<>>,
               raised |-> FALSE, slices |-> pack_slices[q], overlap |-> overlap[q],
               packed_from |-> packed_from[q]]
    IN \E s \in {RankLoop(s0, d, 0, q, call)} :
       \E nx \in {After(1, s.bucket_requests, 1, s.requests, di)} :
          /\ grad' = [grad EXCEPT ![q] = s.grad]
          /\ reduce_buffers' = [reduce_buffers EXCEPT ![q][d] = s.buffers]
          /\ log' = [log EXCEPT ![q] = s.log]
          /\ waited' = [waited EXCEPT ![q] = @ \o [i \in 1 .. (Len(s.log) - Len(@)) |-> 0]]
          /\ wait_at' = [wait_at EXCEPT ![q] = @ \o [i \in 1 .. (Len(s.log) - Len(@)) |-> 0]]
          /\ packed_from' = [packed_from EXCEPT ![q] = s.packed_from]
          /\ bucket_requests' = [bucket_requests EXCEPT ![t] = s.bucket_requests]
          /\ requests' = [requests EXCEPT ![t] = s.requests]
          /\ next_bucket' = [next_bucket EXCEPT ![t] = 1]
          /\ next_request' = [next_request EXCEPT ![t] = 1]
          /\ pack_slices' = [pack_slices EXCEPT ![q] = s.slices]
          /\ overlap' = [overlap EXCEPT ![q] = s.overlap]
          /\ pc' = [pc EXCEPT ![t] = IF s.raised THEN "raised" ELSE nx.pc]
          /\ dev_idx' = [dev_idx EXCEPT ![t] = IF s.raised THEN di ELSE nx.dev]

\* dispatch_grads, line 72-84, called in thread t: the call enters the loop over
\* the devices and runs the submitting part of the task of the first device
EnterDispatch(t) ==
    /\ pc[t] = "idle"
    /\ calls[RankOf(t)] < MaxCalls
    /\ calls' = [calls EXCEPT ![RankOf(t)] = @ + 1]
    /\ call_of' = [call_of EXCEPT ![t] = calls[RankOf(t)] + 1]
    /\ call_start' = [call_start EXCEPT ![RankOf(t)] = Len(log[RankOf(t)])]
    /\ pre' = [pre EXCEPT ![RankOf(t)] = Append(@, grad[RankOf(t)])]
    /\ TaskSubmit(t, RankOf(t), 1, calls[RankOf(t)] + 1)
    /\ UNCHANGED <<config, buffer_dtype, done, unpack_slices>>

\* dispatch_grads called by the training loop itself
DispatchGrads(t) == EnterDispatch(t) /\ UNCHANGED wrap_vars

\* dispatch_grads, line 77-84: the loop over the devices goes on to the next device
ReduceSubmit(t) ==
    /\ pc[t] = "reduce"
    /\ TaskSubmit(t, RankOf(t), dev_idx[t], call_of[t])
    /\ UNCHANGED <<config, buffer_dtype, done, calls, call_of, call_start, pre, unpack_slices>>
    /\ UNCHANGED wrap_vars

HandleDoneNoBlock(h) == TRUE

\* future.wait() returns once the collective has completed
HandleDone(h) == h \in done

IsOwnBucketAlways(rank, self_rank) == TRUE

\* line 143: only the owner of the bucket unrolls it
IsOwnBucket(rank, self_rank) == rank = self_rank

\* line 149: the condition of the unpacking loop
UnpackGuard(params, i_bucketed, offset, buffer_size) ==
    /\ i_bucketed < Len(params)
    /\ offset + Numel(params[i_bucketed + 1]) < buffer_size

RECURSIVE UnpackLoopFromStart(_, _, _, _, _, _, _)
UnpackLoopFromStart(params, grads, buffer, buffer_size, i_bucketed, offset, slices) ==
    IF UnpackGuard(params, i_bucketed, offset, buffer_size)
    THEN LET end == offset + Numel(params[i_bucketed + 1])
         IN UnpackLoopFromStart(params,
                       [grads EXCEPT ![params[i_bucketed + 1]] = Slice(buffer, 0, end - offset)],
                       buffer, buffer_size, i_bucketed + 1, end,
                       Append(slices, <<0, end - offset, params[i_bucketed + 1]>>))
    ELSE [grad |-> grads, i_bucketed |-> i_bucketed, offset |-> offset, slices |-> slices]

\* line 149-153: the unpacking loop
RECURSIVE UnpackLoop(_, _, _, _, _, _, _)
UnpackLoop(params, grads, buffer, buffer_size, i_bucketed, offset, slices) ==
    IF UnpackGuard(params, i_bucketed, offset, buffer_size)
    THEN LET end == offset + Numel(params[i_bucketed + 1])
         IN UnpackLoop(params,
                       [grads EXCEPT ![params[i_bucketed + 1]] = Slice(buffer, offset, end)],
                       buffer, buffer_size, i_bucketed + 1, end,
                       Append(slices, <<offset, end, params[i_bucketed + 1]>>))
    ELSE [grad |-> grads, i_bucketed |-> i_bucketed, offset |-> offset, slices |-> slices]

\* line 140-153: wait on the next bucket request, and unroll the bucket of this rank
WaitBucket(t) ==
    /\ pc[t] = "wait_bucket"
    /\ LET q == RankOf(t)
           br == bucket_requests[t][next_bucket[t]]
           d == DeviceSeq[dev_idx[t]]
           nx == After(next_bucket[t] + 1, bucket_requests[t], 1, requests[t], dev_idx[t])
       IN /\ HandleDone(br.handle)
          /\ waited' = [waited EXCEPT ![q][br.handle] = @ + 1]
          /\ wait_at' = [wait_at EXCEPT ![q][br.handle] = Len(log[q])]
          /\ IF IsOwnBucket(br.rank, q)
             THEN \E up \in {UnpackLoop(per_device_params[d][br.rank], grad[q],
                                        reduce_buffers[q][d][br.rank],
                                        Len(reduce_buffers[q][d][0]), 0, 0, <<>>)} :
                  /\ grad' = [grad EXCEPT ![q] = up.grad]
                  /\ unpack_slices' = [unpack_slices EXCEPT ![q] = @ \o
                        [i \in DOMAIN up.slices |->
                            [d |-> d, r |-> br.rank, off |-> up.slices[i][1],
                             end |-> up.slices[i][2], p |-> up.slices[i][3],
                             call |-> call_of[t]]]]
             ELSE UNCHANGED <<grad, unpack_slices>>
          /\ next_bucket' = [next_bucket EXCEPT ![t] = @ + 1]
          /\ pc' = [pc EXCEPT ![t] = nx.pc]
          /\ dev_idx' = [dev_idx EXCEPT ![t] = nx.dev]
    /\ UNCHANGED <<config, reduce_buffers, buffer_dtype, bucket_requests, requests, next_request,
                   call_of, log, done, calls, call_start, packed_from, pre, pack_slices, overlap>>
    /\ UNCHANGED wrap_vars

\* line 156: wait on the next request of the directly reduced gradients
WaitRequest(t) ==
    /\ pc[t] = "wait_request"
    /\ LET q == RankOf(t)
           h == requests[t][next_request[t]]
           nx == After(next_bucket[t], bucket_requests[t], next_request[t] + 1, requests[t],
                       dev_idx[t])
       IN /\ HandleDone(h)
          /\ waited' = [waited EXCEPT ![q][h] = @ + 1]
          /\ wait_at' = [wait_at EXCEPT ![q][h] = Len(log[q])]
          /\ next_request' = [next_request EXCEPT ![t] = @ + 1]
          /\ pc' = [pc EXCEPT ![t] = nx.pc]
          /\ dev_idx' = [dev_idx EXCEPT ![t] = nx.dev]
    /\ UNCHANGED <<config, grad, reduce_buffers, buffer_dtype, bucket_requests, requests,
                   next_bucket, call_of, log, done, calls, call_start, packed_from, pre,
                   pack_slices, unpack_slices, overlap>>
    /\ UNCHANGED wrap_vars

\* ------------------------------------------------- dist.reduce (transport)
\* the tensor of process r that a reference names, as it is now
Read(r, ref) ==
    IF ref.kind = "buffer" THEN reduce_buffers[r][ref.d][ref.r] ELSE grad[r][ref.p]

\* the sum over the ranks of the tensors they handed to their h-th reduce
Reduced(h, T) ==
    [k \in DOMAIN T |-> SumSet(Ranks, [r \in Ranks |-> Read(r, log[r][h].t)[k]])]

\* every rank has called its h-th reduce, all with the same destination and the
\* same number of elements
Joined(h) ==
    /\ \A r \in Ranks : Len(log[r]) >= h
    /\ \A r \in Ranks :
          /\ log[r][h].dst = log[0][h].dst
          /\ Len(Read(r, log[r][h].t)) = Len(Read(0, log[0][h].t))

\* The h-th collective completes: every rank has joined it; the tensors are read
\* and the destination rank receives the sum in place.  (A collective the ranks
\* join with different arguments does not complete.)
Complete(h) ==
    /\ h \notin done
    /\ Joined(h)
    /\ done' = done \cup {h}
    /\ grad' = [q \in Ranks |->
                  LET op == log[q][h] IN
                  IF op.dst = q /\ op.t.kind = "grad"
                  THEN [grad[q] EXCEPT ![op.t.p] = Reduced(h, @)]
                  ELSE grad[q]]
    /\ reduce_buffers' = [q \in Ranks |->
                  LET op == log[q][h] IN
                  IF op.dst = q /\ op.t.kind = "buffer"
                  THEN [reduce_buffers[q] EXCEPT ![op.t.d][op.t.r] = Reduced(h, @)]
                  ELSE reduce_buffers[q]]
    /\ UNCHANGED <<config, pc, buffer_dtype, dev_idx, bucket_requests, requests, next_bucket,
                   next_request, call_of, log, calls, call_start, waited, wait_at, packed_from,
                   pre, pack_slices, unpack_slices, overlap>>
    /\ UNCHANGED wrap_vars

MaxHandle == Len(log[0])

Next ==
    \/ \E q \in Ranks : DispatchGrads(q)
    \/ \E q \in Ranks : ReduceSubmit(q)
    \/ \E q \in Ranks : WaitBucket(q)
    \/ \E q \in Ranks : WaitRequest(q)
    \/ \E h \in 1 .. MaxHandle : Complete(h)

\* one thread per process
Spec == Init /\ [][Next]_vars

SpecAnyOrder == InitAnyOrder /\ [][Next]_vars

\* The system does not stop while a step is possible: the processes run the same
\* training loop and go on running (each makes its calls of dispatch_grads and
\* returns from a wait whose reduce has completed), and the transport completes a
\* reduce that every rank has joined.
Fairness == WF_vars(Next)

SpecLive == InitNoError /\ [][Next]_vars /\ Fairness

\* the same instances, every behaviour of them
SpecNoError == InitNoError /\ [][Next]_vars

\* dispatch_grads takes no lock: a second thread of a process calls it whenever it
\* likes.  The threads of a process take turns at the calls that block (the waits).
NextReentrant ==
    \/ \E t \in Threads : DispatchGrads(t)
    \/ \E t \in Threads : WaitBucket(t)
    \/ \E t \in Threads : WaitRequest(t)
    \/ \E h \in 1 .. MaxHandle : Complete(h)

\* two threads per process, on instances with one device
SpecReentrant == InitOneDevice /\ [][NextReentrant]_vars


\* ------------------------------------- buffer synchronisation, autograd node
\* the state of dispatch_grads that a synchronisation of the buffers leaves alone
dispatch_vars == <<config, grad, reduce_buffers, buffer_dtype, dev_idx, bucket_requests, requests,
                   next_bucket, next_request, call_of, log, done, calls, call_start, waited,
                   wait_at, packed_from, pre, pack_slices, unpack_slices, overlap>>

\* sync_buffers submitting its broadcasts from the calling rank
BroadcastsFromSelf(q) ==
    [i \in 1 .. Len(model_buffers[q]) |-> [src |-> GetGlobalRank(q), buf |-> i]]

\* sync_buffers, line 163-168: the list of requests, one asynchronous broadcast
\* per buffer of the model, each from the reference rank
Broadcasts(q) ==
    [i \in 1 .. Len(model_buffers[q]) |-> [src |-> GetGlobalRank(reference_rank), buf |-> i]]

\* the handles dist.broadcast returns for them: their positions in the log
SyncHandles(q) == [i \in 1 .. Len(Broadcasts(q)) |-> Len(bcast_log[q]) + i]

\* how often each of the handles hs has been waited on, given the counts w
WaitCounts(w, hs) == [i \in 1 .. Len(hs) |-> w[hs[i]]]

\* ModelDispatch.wait, line 190: the map over the requests runs only for a list
\* that is not empty
WaitRuns(rs) == rs # <<>>

\* sync_buffers, line 158-169, up to its first wait: the broadcasts are
\* submitted; the call returns the requests if non_blocking, and None at once
\* from a wait that has nothing to wait for
SyncBuffersCall(q, non_blocking, by_forward) ==
    LET hs == SyncHandles(q)
        w == bcast_waited[q] \o [i \in 1 .. Len(hs) |-> 0]
        blocks == ~non_blocking /\ WaitRuns(hs)
    IN  /\ bcast_log' = [bcast_log EXCEPT ![q] = @ \o Broadcasts(q)]
        /\ bcast_waited' = [bcast_waited EXCEPT ![q] = w]
        /\ sync_calls' = [sync_calls EXCEPT ![q] =
               Append(@, [non_blocking |-> non_blocking, by_forward |-> by_forward,
                          handles |-> hs,
                          returned |-> IF blocks THEN "pending"
                                       ELSE IF non_blocking THEN "requests" ELSE "None",
                          waits |-> WaitCounts(w, hs)])]
        /\ sync_requests' = [sync_requests EXCEPT ![q] = IF blocks THEN hs ELSE <<>>]
        /\ sync_next' = [sync_next EXCEPT ![q] = 1]
        /\ pc' = [pc EXCEPT ![q] = IF blocks THEN "sync_wait" ELSE "idle"]

\* Every process runs the same training loop: process q makes its next call, k,
\* which is the call the processes ahead of it made at that point of the loop.
TrainingLoop(q, k) ==
    /\ steps[q] < MaxCalls
    /\ steps[q] < Len(program) => program[steps[q] + 1] = k
    /\ program' = IF steps[q] < Len(program) THEN program ELSE Append(program, k)
    /\ steps' = [steps EXCEPT ![q] = @ + 1]

\* sync_buffers called by the training loop itself, with either value of non_blocking
SyncBuffers(q, non_blocking) ==
    /\ pc[q] = "idle"
    /\ grad_outputs[q] = <<>>
    /\ TrainingLoop(q, [call |-> "sync_buffers", non_blocking |-> non_blocking])
    /\ SyncBuffersCall(q, non_blocking, FALSE)
    /\ UNCHANGED <<broadcast_buffers, reference_rank, n_inputs, model_buffers, bcast_done, ctx,
                   grad_outputs, backward_returns>>
    /\ UNCHANGED dispatch_vars

\* ModelDispatch.wait, line 191: one x.wait() of the map, which returns once the
\* broadcast has completed; after the last one sync_buffers returns None
SyncWait(q) ==
    /\ pc[q] = "sync_wait"
    /\ LET h == sync_requests[q][sync_next[q]]
           last == sync_next[q] = Len(sync_requests[q])
           w == [bcast_waited[q] EXCEPT ![h] = @ + 1]
           n == Len(sync_calls[q])
       IN  /\ h \in bcast_done
           /\ bcast_waited' = [bcast_waited EXCEPT ![q] = w]
           /\ sync_next' = [sync_next EXCEPT ![q] = IF last THEN 1 ELSE @ + 1]
           /\ sync_requests' = [sync_requests EXCEPT ![q] = IF last THEN <<>> ELSE @]
           /\ pc' = [pc EXCEPT ![q] = IF last THEN "idle" ELSE @]
           /\ sync_calls' = [sync_calls EXCEPT ![q][n] =
                  IF last
                  THEN [@ EXCEPT !.returned = "None",
                                 !.waits = WaitCounts(w, sync_calls[q][n].handles)]
                  ELSE @]
    /\ UNCHANGED <<broadcast_buffers, reference_rank, n_inputs, model_buffers, bcast_log,
                   bcast_done, program, steps, ctx, grad_outputs, backward_returns>>
    /\ UNCHANGED dispatch_vars

\* every rank of the group has submitted its broadcast number h
BcastJoined(h) == \A q \in Ranks : Len(bcast_log[q]) >= h

\* transport: broadcast number h completes; every rank's buffer holds the value
\* of the source rank
BcastComplete(h) ==
    /\ h \notin bcast_done
    /\ BcastJoined(h)
    /\ bcast_done' = bcast_done \cup {h}
    /\ model_buffers' = [q \in Ranks |->
           [model_buffers[q] EXCEPT ![bcast_log[q][h].buf] =
                model_buffers[bcast_log[q][h].src][bcast_log[q][h].buf]]]
    /\ UNCHANGED <<broadcast_buffers, reference_rank, n_inputs, pc, bcast_log, bcast_waited,
                   sync_requests, sync_next, sync_calls, program, steps, ctx, grad_outputs,
                   backward_returns>>
    /\ UNCHANGED dispatch_vars

\* the inputs of a forward call: tensors, told apart by their position
Inputs(q) == [i \in 1 .. n_inputs |-> <<10 * (q + 1) + i>>]

\* DispatchLayer.forward, line 205-212: the outputs are the inputs
DispatchLayerForward(inputs) == inputs

\* ModelDispatch.forward, line 67: whether the forward pass synchronises the buffers
ForwardSyncs(q) == broadcast_buffers /\ Len(model_buffers[q]) > 0

\* GradReducerModelWrap.forward, line 257-270: DispatchLayer.apply records the
\* model for the backward pass, then ModelDispatch.forward (line 66-70)
\* synchronises the buffers, blocking, if asked to and if the model has any
WrapForward(q) ==
    /\ pc[q] = "idle"
    /\ grad_outputs[q] = <<>>
    /\ TrainingLoop(q, [call |-> "forward", non_blocking |-> FALSE])
    /\ ctx' = [ctx EXCEPT ![q] = Len(DispatchLayerForward(Inputs(q)))]
    /\ IF ForwardSyncs(q)
       THEN SyncBuffersCall(q, FALSE, TRUE)
       ELSE UNCHANGED <<pc, bcast_log, bcast_waited, sync_calls, sync_requests, sync_next>>
    /\ UNCHANGED <<broadcast_buffers, reference_rank, n_inputs, model_buffers, bcast_done,
                   grad_outputs, backward_returns>>
    /\ UNCHANGED dispatch_vars

\* the gradient autograd hands to backward for output i of the node
GradOutput(q, i) == <<1000 * (q + 1) + i>>

\* DispatchLayer.backward, line 219-220: grad_outputs is always a tuple, so this
\* is the value returned
DispatchLayerBackward(gs) == <<None, None, gs[1]>>

\* DispatchLayer.backward, line 215-216: autograd calls it with one gradient per
\* output of the forward, and it calls dispatch_grads
Backward(q) ==
    /\ ctx[q] > 0
    /\ grad_outputs[q] = <<>>
    /\ TrainingLoop(q, [call |-> "backward", non_blocking |-> FALSE])
    /\ grad_outputs' = [grad_outputs EXCEPT ![q] = [i \in 1 .. ctx[q] |-> GradOutput(q, i)]]
    /\ EnterDispatch(q)
    /\ UNCHANGED <<broadcast_buffers, reference_rank, n_inputs, model_buffers, bcast_log,
                   bcast_done, bcast_waited, sync_requests, sync_next, sync_calls, ctx,
                   backward_returns>>

\* DispatchLayer.backward, line 218-222: dispatch_grads has returned, and
\* backward returns
BackwardReturn(q) ==
    /\ pc[q] = "idle"
    /\ grad_outputs[q] # <<>>
    /\ backward_returns' = [backward_returns EXCEPT ![q] =
           Append(@, [n |-> ctx[q], grad_outputs |-> grad_outputs[q],
                      result |-> DispatchLayerBackward(grad_outputs[q])])]
    /\ grad_outputs' = [grad_outputs EXCEPT ![q] = <<>>]
    /\ ctx' = [ctx EXCEPT ![q] = 0]
    /\ UNCHANGED <<broadcast_buffers, reference_rank, n_inputs, model_buffers, pc, bcast_log,
                   bcast_done, bcast_waited, sync_requests, sync_next, sync_calls, program,
                   steps>>
    /\ UNCHANGED dispatch_vars

MaxBroadcast == Len(bcast_log[0])

NextWrap ==
    \/ \E q \in Ranks : WrapForward(q)
    \/ \E q \in Ranks, non_blocking \in BOOLEAN : SyncBuffers(q, non_blocking)
    \/ \E q \in Ranks : SyncWait(q)
    \/ \E h \in 1 .. MaxBroadcast : BcastComplete(h)
    \/ \E q \in Ranks : Backward(q)
    \/ \E q \in Ranks : BackwardReturn(q)
    \/ \E q \in Ranks : WaitBucket(q)
    \/ \E q \in Ranks : WaitRequest(q)
    \/ \E h \in 1 .. MaxHandle : Complete(h)

\* the wrapped model in a training loop, on instances with one device
SpecWrap == InitWrap /\ [][NextWrap]_vars


\* ------------------------------------------------------------- properties
\* the rank whose list holds p, and the position of p's device in the device loop
OwnerOf(p) == param_owner[p]
DeviceOf(p) == param_device[p]
DevicePos(p) == Cardinality({d \in DOMAIN per_device_params : d <= DeviceOf(p)})

\* the last dispatch_grads call of q has returned normally
Returned(q) == pc[q] = "idle" /\ calls[q] >= 1

\* the reduce operations of call c of process q that carry the gradient of p
PathsOf(q, c, p) ==
    {h \in (IF c = calls[q] THEN call_start[q] + 1 ELSE 1) .. Len(log[q]) :
        log[q][h].call = c /\ p \in log[q][h].covers}

\* the task of p's device has submitted its reduces in the current call of process q
Submitted(q, p) ==
    DevicePos(p) <= (IF pc[q] \in {"reduce", "raised"} THEN dev_idx[q] - 1 ELSE dev_idx[q])

\* the gradient of rank r for element j of p when its call c started, absent being zero
PreVal(r, c, p, j) == IF pre[r][c][p] = None THEN 0 ELSE pre[r][c][p][j]

\* C1: after a dispatch that every rank executed without error, the gradient slot
\* of every parameter on its owner rank is the sum over the ranks of the gradients
\* they held before the dispatch (absent counting as zero) divided by world_size,
\* the division being applied exactly once.
ScaleOnce ==
    \A q \in Ranks : Returned(q) =>
        \A p \in Params : OwnerOf(p) = q =>
            /\ \A r \in Ranks : Len(pre[r]) >= calls[q]
            /\ Len(grad[q][p]) = Numel(p)
            /\ \A j \in 1 .. Numel(p) :
                 WorldSize * grad[q][p][j] =
                    SumSet(Ranks, [r \in Ranks |-> PreVal(r, calls[q], p, j)])

\* an owner has returned from its second call holding a packed and a directly
\* reduced parameter, one rank having had no gradient for one of them
ScaleOnceWitness ==
    \E q \in Ranks : \E p1, p2 \in Params :
        /\ Returned(q) /\ calls[q] = 2
        /\ OwnerOf(p1) = q /\ OwnerOf(p2) = q
        /\ \E h \in PathsOf(q, 2, p1) : log[q][h].t.kind = "buffer"
        /\ \E h \in PathsOf(q, 2, p2) : log[q][h].t.kind = "grad"
        /\ \E r \in Ranks : pre[r][1][p1] = None \/ pre[r][1][p2] = None

\* C2: in every dispatch call every parameter of a processed device is carried by
\* exactly one reduce aimed at its owner rank, the bucket reduce of its list or a
\* reduce of its own, never both and never neither.  (Stated of the call in
\* progress or last returned; the log of an earlier call never changes.)
ExactlyOnePath ==
    \A q \in Ranks : calls[q] >= 1 =>
        \A p \in Params : \A paths \in {PathsOf(q, calls[q], p)} :
            /\ Cardinality(paths) <= 1
            /\ Submitted(q, p) => Cardinality(paths) = 1
            /\ \A h \in paths :
                 /\ log[q][h].dst = GetGlobalRank(OwnerOf(p))
                 /\ log[q][h].t \in {BufRef(DeviceOf(p), OwnerOf(p)), GradRef(p)}

\* a process has returned from a call in which one list was split into a packed
\* prefix of two parameters and a directly reduced parameter
ExactlyOnePathWitness ==
    \E q \in Ranks : \E p1, p2, p3 \in Params :
        /\ Returned(q)
        /\ p1 # p2
        /\ \E h \in PathsOf(q, calls[q], p1) :
              log[q][h].t.kind = "buffer" /\ p2 \in log[q][h].covers
        /\ OwnerOf(p3) = OwnerOf(p1) /\ DeviceOf(p3) = DeviceOf(p1)
        /\ \E h \in PathsOf(q, calls[q], p3) : log[q][h].t.kind = "grad"

\* C3: every slice written while packing and read while unpacking lies inside the
\* buffer, and the running offset never exceeds the capacity, whatever the order
\* of the lists and the capacity.
CapacityInvariant ==
    \A q \in Ranks :
        /\ \A sl \in pack_slices[q] :
              /\ 0 <= sl.off /\ sl.off <= sl.end
              /\ sl.end <= Len(reduce_buffers[q][sl.d][sl.r])
        /\ \A i \in DOMAIN unpack_slices[q] :
              /\ 0 <= unpack_slices[q][i].off /\ unpack_slices[q][i].off <= unpack_slices[q][i].end
              /\ unpack_slices[q][i].end
                    <= Len(reduce_buffers[q][unpack_slices[q][i].d][unpack_slices[q][i].r])

IsSorted(params) ==
    \A i, j \in DOMAIN params : i < j => Numel(params[i]) <= Numel(params[j])

\* a bucket of a list that is not sorted has been packed and unpacked
CapacityInvariantWitness ==
    \E q \in Ranks : \E sl \in Range(unpack_slices[q]) :
        /\ ~IsSorted(per_device_params[sl.d][sl.r])
        /\ sl.off > 0
        /\ \E pk \in pack_slices[q] :
              pk.d = sl.d /\ pk.r = sl.r /\ pk.off = sl.off /\ pk.end = sl.end /\ pk.p = sl.p

\* C4: when dispatch returns normally every handle it created has been waited on
\* exactly once and none is pending.
AllWaitedOnReturn ==
    \A q \in Ranks : Returned(q) =>
        /\ Len(waited[q]) = Len(log[q])
        /\ \A h \in 1 .. Len(log[q]) : waited[q][h] = 1 /\ h \in done

\* a process has returned from a call over two devices that created a bucket
\* handle and a handle of a direct reduce
AllWaitedOnReturnWitness ==
    \E q \in Ranks :
        /\ Returned(q)
        /\ Len(DeviceSeq) = 2
        /\ \E h1, h2 \in 1 .. Len(log[q]) :
              log[q][h1].t.kind = "buffer" /\ log[q][h2].t.kind = "grad"

\* C5: over dispatch calls made one after the other, no reduce buffer is packed or
\* scaled while a reduce that references it is in flight.
NoReuseBeforeCompletion == \A q \in Ranks : ~overlap[q]

\* a process has packed the same buffer again in its second call
NoReuseBeforeCompletionWitness ==
    \E q \in Ranks : \E h1, h2 \in 1 .. Len(log[q]) :
        /\ log[q][h1].t.kind = "buffer"
        /\ log[q][h2].t = log[q][h1].t
        /\ log[q][h1].call = 1 /\ log[q][h2].call = 2


\* the gradient slot of p on q when the current call of q started, None being zeros
ZeroFilledPre(q, p) ==
    IF pre[q][calls[q]][p] = None THEN Zeros(Numel(p)) ELSE pre[q][calls[q]][p]

\* p is reduced on its own (not in a bucket) in the current call of q
ReducedDirectly(q, p) == \E h \in PathsOf(q, calls[q], p) : log[q][h].t.kind = "grad"

\* C6 as stated: after dispatch the gradient slot of every parameter owned by
\* another rank equals its value before dispatch.
FrameOtherRanksUnchanged ==
    \A q \in Ranks : Returned(q) =>
        \A p \in Params : OwnerOf(p) # q => grad[q][p] = pre[q][calls[q]][p]

\* C6, amended: on the slot of a parameter owned by another rank dispatch only
\* fills an absent gradient with zeros and, when the parameter is reduced on its
\* own, divides the slot by world_size; a present gradient of a packed parameter
\* is unchanged.
FrameOtherRanks ==
    \A q \in Ranks : Returned(q) =>
        \A p \in Params : OwnerOf(p) # q =>
            grad[q][p] = IF ReducedDirectly(q, p)
                         THEN DivTensor(ZeroFilledPre(q, p), WorldSize)
                         ELSE ZeroFilledPre(q, p)

\* a process has returned holding, for another rank, a packed parameter and a
\* directly reduced one
FrameOtherRanksWitness ==
    \E q \in Ranks : \E p1, p2 \in Params :
        /\ Returned(q)
        /\ OwnerOf(p1) # q /\ OwnerOf(p2) # q
        /\ ReducedDirectly(q, p1) /\ ~ReducedDirectly(q, p2)
        /\ pre[q][calls[q]][p2] # None

\* C7: an absent gradient is no error: the parameter gets zeros of its shape,
\* keeps its place in the bucket or among the direct reduces (the same reduce, at
\* the same position, as on a rank holding the gradient), contributes zero, and
\* no parameter of a processed list is left without a gradient.
AbsentIsZero ==
    \A q \in Ranks : calls[q] >= 1 =>
        /\ pc[q] = "raised" => \E p \in Params : grad_requires_grad[q][p] /\ grad[q][p] # None
        /\ \A p \in Params :
             /\ Submitted(q, p) => grad[q][p] # None /\ Len(grad[q][p]) = Numel(p)
             /\ (Returned(q) /\ pre[q][calls[q]][p] = None) =>
                   /\ OwnerOf(p) # q => grad[q][p] = Zeros(Numel(p))
                   /\ (\A r \in Ranks : pre[r][calls[q]][p] = None) => grad[q][p] = Zeros(Numel(p))
                   /\ \A r \in Ranks : \A h \in PathsOf(q, calls[q], p) :
                         Len(log[r]) >= h /\ log[r][h] = log[q][h]

\* a process has returned from a call before which it had no gradient for a
\* parameter that was packed behind another one
AbsentIsZeroWitness ==
    \E q \in Ranks : \E p \in Params :
        /\ Returned(q) /\ calls[q] = 1
        /\ pre[q][1][p] = None
        /\ \E h \in PathsOf(q, 1, p) :
              log[q][h].t.kind = "buffer" /\ Cardinality(log[q][h].covers) = 2

\* C8 as stated: a gradient marked as requiring grad is never reduced, packed or not.
FlaggedNeverReduced ==
    \A q \in Ranks : \A h \in 1 .. Len(log[q]) :
        \A p \in log[q][h].covers : ~grad_requires_grad[q][p]

\* C8, amended: a gradient marked as requiring grad that is to be reduced on its
\* own is never scaled nor reduced, the dispatch aborts at it; one that lies in
\* the packed prefix is not checked and is reduced in the bucket.
FlaggedDirectIsFatal ==
    \A q \in Ranks : calls[q] >= 1 =>
        /\ \A p \in Params : grad_requires_grad[q][p] =>
             /\ \A h \in 1 .. Len(log[q]) : log[q][h].t # GradRef(p)
             /\ (Submitted(q, p) /\ calls[q] = 1) =>
                   /\ \E h \in PathsOf(q, 1, p) : log[q][h].t.kind = "buffer"
                   /\ OwnerOf(p) # q => grad[q][p] = pre[q][1][p]
        /\ pc[q] = "raised" =>
             \E p \in Params :
                 /\ grad_requires_grad[q][p]
                 /\ DevicePos(p) = dev_idx[q]
                 /\ PathsOf(q, calls[q], p) = {}
                 /\ grad[q][p] = pre[q][calls[q]][p]

\* a process has aborted after it had submitted a reduce
FlaggedDirectIsFatalWitness ==
    \E q \in Ranks : pc[q] = "raised" /\ Len(log[q]) > 0

\* two parameters of one device differ in dtype
MixedDtype ==
    \E p1, p2 \in Params : DeviceOf(p1) = DeviceOf(p2) /\ param_dtype[p1] # param_dtype[p2]

DeviceNumel(d) ==
    SumSet({p \in Params : DeviceOf(p) = d}, Sizes)

\* the instance of q has been constructed
IsConstructed(q) == pc[q] # "ctor_failed"

PosOfDevice(d) == Cardinality({e \in DOMAIN per_device_params : e <= d})

\* process q has run, in its current call, the submitting part of the task of
\* device d to its end
DeviceSubmitted(q, d) ==
    /\ calls[q] >= 1
    /\ PosOfDevice(d) <= (IF pc[q] \in {"reduce", "raised"} THEN dev_idx[q] - 1 ELSE dev_idx[q])

\* process q has run the submitting part of the task of device d at least once
EverSubmitted(q, d) == calls[q] >= 2 \/ DeviceSubmitted(q, d)

\* the prefix of the list of rank r on device d that process q packed
PackedPrefix(q, d, r) ==
    {<<sl.off, sl.end, sl.p>> : sl \in {x \in pack_slices[q] : x.d = d /\ x.r = r}}

\* the slices process q read when it unpacked its bucket of device d in call c
UnpackedPrefix(q, d, c) ==
    {<<unpack_slices[q][i].off, unpack_slices[q][i].end, unpack_slices[q][i].p>> :
        i \in {j \in DOMAIN unpack_slices[q] :
                  unpack_slices[q][j].d = d /\ unpack_slices[q][j].call = c}}

\* process q has waited in call c on the bucket reduce of rank r on device d
BucketWaited(q, d, r, c) ==
    \E h \in 1 .. Len(log[q]) :
        log[q][h].call = c /\ log[q][h].t = BufRef(d, r) /\ waited[q][h] >= 1

\* C11: for every list, every process that has packed it has packed the same
\* prefix (the same number of parameters, at the same offsets), whatever its own
\* rank and whatever gradients it lacked; and a process that unpacks its bucket
\* recomputes the prefix it packed.
StructuralAgreement ==
    \A d \in DOMAIN per_device_params : \A r \in Ranks :
        \A packed \in {[q \in Ranks |-> PackedPrefix(q, d, r)]} :
            /\ \A q1, q2 \in Ranks :
                  (EverSubmitted(q1, d) /\ EverSubmitted(q2, d)) => packed[q1] = packed[q2]
            /\ \A c \in 1 .. calls[r] :
                  BucketWaited(r, d, r, c) => UnpackedPrefix(r, d, c) = packed[r]

\* two processes, one of which had no gradient for a parameter, have packed the
\* same prefix of two parameters holding it, and the owner has unpacked it
StructuralAgreementWitness ==
    \E q1, q2 \in Ranks : \E p \in Params : \E c \in 1 .. calls[OwnerOf(p)] :
        /\ calls[q1] >= 1 /\ calls[q2] >= 1
        /\ pre[q1][1][p] = None /\ pre[q2][1][p] # None
        /\ EverSubmitted(q1, DeviceOf(p)) /\ EverSubmitted(q2, DeviceOf(p))
        /\ Cardinality(PackedPrefix(q1, DeviceOf(p), OwnerOf(p))) = 2
        /\ \E sl \in PackedPrefix(q1, DeviceOf(p), OwnerOf(p)) : sl[3] = p
        /\ BucketWaited(OwnerOf(p), DeviceOf(p), OwnerOf(p), c)

\* the device of the tensor a reduce was called with
DeviceOfOp(op) == IF op.t.kind = "buffer" THEN op.t.d ELSE DeviceOf(op.t.p)

\* the reduces process q issued in call c for the list of rank r on device d
ListOps(q, c, d, r) ==
    {h \in (IF c = calls[q] THEN call_start[q] + 1 ELSE 1) .. Len(log[q]) :
        log[q][h].call = c /\ log[q][h].dst = GetGlobalRank(r) /\ DeviceOfOp(log[q][h]) = d}

\* the element count of the first k parameters of a list
RECURSIVE CumSize(_, _)
CumSize(params, k) == IF k = 0 THEN 0 ELSE CumSize(params, k - 1) + Numel(params[k])

\* the length of the longest prefix whose cumulative size stays strictly below C
PrefixBelow(params, C) ==
    CHOOSE k \in 0 .. Len(params) :
        /\ \A i \in 1 .. k : CumSize(params, i) < C
        /\ k < Len(params) => CumSize(params, k + 1) >= C

\* (1 if k > 0 else 0) + (n - k), and zero for an empty list
ExpectedOps(params, C) ==
    IF Len(params) = 0 THEN 0
    ELSE (IF PrefixBelow(params, C) > 0 THEN 1 ELSE 0) + (Len(params) - PrefixBelow(params, C))

\* C12: for a list of n parameters and capacity C, k being the length of the
\* longest prefix whose cumulative size stays strictly below C, a dispatch that
\* runs the task of the device to its end issues for that list exactly
\* (1 if k > 0 else 0) + (n - k) reduces, and none for an empty list.
OperationCount ==
    \A q \in Ranks : \A d \in DOMAIN per_device_params :
        DeviceSubmitted(q, d) =>
            \A r \in Ranks :
                Cardinality(ListOps(q, calls[q], d, r)) =
                    ExpectedOps(per_device_params[d][r], Len(reduce_buffers[q][d][0]))

\* a dispatch has returned that issued exactly 2 reduces for a list of three
\* parameters: two are packed, the third would bring the offset to exactly C
OperationCountWitness ==
    \E q \in Ranks : \E d \in DOMAIN per_device_params : \E r \in Ranks :
        /\ Returned(q)
        /\ Len(per_device_params[d][r]) = 3
        /\ PrefixBelow(per_device_params[d][r], Len(reduce_buffers[q][d][0])) = 2
        /\ CumSize(per_device_params[d][r], 3) = Len(reduce_buffers[q][d][0])
        /\ Cardinality(ListOps(q, calls[q], d, r)) = 2
        /\ \E r2 \in Ranks : Len(per_device_params[d][r2]) = 0 /\ ListOps(q, calls[q], d, r2) = {}

\* every thread is out of dispatch_grads and every process has made every call
AllQuiet ==
    /\ \A t \in Threads : pc[t] = "idle"
    /\ \A q \in Ranks : calls[q] = MaxCalls

\* p lies in the packed prefix of the list of its owner q
PackedOwned(q, p) == OwnerOf(p) = q /\ \E sl \in pack_slices[q] : sl.p = p

\* the owner q of p holds something else than the average of the gradients the
\* ranks held when their last call started
Corrupted(q, p) ==
    \E j \in 1 .. Numel(p) :
        WorldSize * grad[q][p][j] # SumSet(Ranks, [r \in Ranks |-> PreVal(r, calls[q], p, j)])

\* C19: dispatch has no lock and no check: with a second thread calling it, a
\* buffer is packed and scaled again while a reduce of an earlier call still
\* references it, and the owner is then delivered a value that is not the average
\* while other interleavings deliver the average.  Stated as what holds in every
\* state: when the calls have ended, a packed gradient of an owner is corrupted only
\* if some process repacked a buffer that a pending reduce referenced.
ReuseHazardNeedsOverlap ==
    AllQuiet =>
        \A q \in Ranks : \A p \in Params :
            (PackedOwned(q, p) /\ Corrupted(q, p)) => \E r \in Ranks : overlap[r]

\* the calls of two threads have overlapped and have ended, a buffer was repacked
\* under a pending reduce, and an owner holds a corrupted packed gradient
ReuseHazardWitness ==
    /\ AllQuiet
    /\ \E q \in Ranks : \E p \in Params :
          /\ PackedOwned(q, p) /\ Corrupted(q, p)
          /\ overlap[q]
          /\ \E t \in Threads : t \notin Ranks /\ RankOf(t) = q /\ call_of[t] >= 1

\* the reduce b was issued for a later device, or in a later call, than the reduce a
LaterTask(a, b) ==
    \/ a.call < b.call
    \/ a.call = b.call /\ PosOfDevice(DeviceOfOp(a)) < PosOfDevice(DeviceOfOp(b))

\* the reduces a and b were issued by the task of the same device in the same call
SameTask(a, b) == a.call = b.call /\ DeviceOfOp(a) = DeviceOfOp(b)

\* C15: when a handle is waited on, every reduce of its device (every rank, bucket
\* and direct) has been submitted; and every handle of a device has been waited
\* on before the first reduce of the next device is submitted.
SubmitAllThenWait ==
    \A q \in Ranks : \A h1, h2 \in 1 .. Len(log[q]) :
        /\ (SameTask(log[q][h1], log[q][h2]) /\ waited[q][h1] >= 1) => wait_at[q][h1] >= h2
        /\ LaterTask(log[q][h1], log[q][h2]) => (waited[q][h1] >= 1 /\ wait_at[q][h1] < h2)

\* a process has returned from a call over two devices, the first of which had a
\* bucket reduce and a direct reduce for different ranks
SubmitAllThenWaitWitness ==
    \E q \in Ranks : \E h1, h2, h3 \in 1 .. Len(log[q]) :
        /\ Returned(q)
        /\ SameTask(log[q][h1], log[q][h2]) /\ LaterTask(log[q][h2], log[q][h3])
        /\ log[q][h1].call = log[q][h3].call
        /\ log[q][h1].t.kind = "buffer" /\ log[q][h2].t.kind = "grad"
        /\ log[q][h1].dst # log[q][h2].dst

\* the entries of the unpack history of q that wrote p in call c
UnpackWrites(q, c, p) ==
    {i \in DOMAIN unpack_slices[q] : unpack_slices[q][i].call = c /\ unpack_slices[q][i].p = p}

\* C16: only the owner unpacks a bucket, and only once the wait on its reduce has
\* returned; the i-th packed parameter is given the slice its own gradient was
\* packed into; every packed parameter of the owner is written exactly once per
\* dispatch, in the order of packing.
OrderPreservingUnpack ==
    \A q \in Ranks :
        /\ \A i \in DOMAIN unpack_slices[q] : \A u \in {unpack_slices[q][i]} :
              /\ u.r = q /\ OwnerOf(u.p) = q
              /\ \E pk \in pack_slices[q] :
                    pk.d = u.d /\ pk.r = u.r /\ pk.p = u.p /\ pk.off = u.off /\ pk.end = u.end
              /\ \E h \in 1 .. Len(log[q]) :
                    /\ log[q][h].call = u.call /\ log[q][h].t = BufRef(u.d, q)
                    /\ h \in done /\ waited[q][h] = 1
              /\ UnpackWrites(q, u.call, u.p) = {i}
              /\ \A j \in DOMAIN unpack_slices[q] :
                    (j < i /\ unpack_slices[q][j].call = u.call /\ unpack_slices[q][j].d = u.d)
                        => unpack_slices[q][j].end <= u.off
              /\ (u.call = calls[q]) =>
                    grad[q][u.p] = Slice(reduce_buffers[q][u.d][q], u.off, u.end)
        /\ \A d \in DOMAIN per_device_params : \A c \in 1 .. calls[q] :
              BucketWaited(q, d, q, c) =>
                 \A pk \in pack_slices[q] :
                     (pk.d = d /\ pk.r = q) => Cardinality(UnpackWrites(q, c, pk.p)) = 1

\* an owner has unpacked, in its second call, a bucket of two parameters, and has
\* waited on the bucket of another rank without unpacking anything
OrderPreservingUnpackWitness ==
    \E q \in Ranks : \E i, j \in DOMAIN unpack_slices[q] : \E h \in 1 .. Len(log[q]) :
        /\ Returned(q) /\ calls[q] = 2
        /\ unpack_slices[q][i].call = 2 /\ unpack_slices[q][j].call = 2
        /\ unpack_slices[q][i].d = unpack_slices[q][j].d
        /\ unpack_slices[q][i].off = 0 /\ unpack_slices[q][j].off > 0
        /\ log[q][h].t.kind = "buffer" /\ log[q][h].t.r # q /\ waited[q][h] = 1

\* C17 as stated: also when dispatch ends with the invalid-gradient error, every
\* reduce it had submitted has been waited on exactly once.
AllWaitedAlsoOnError ==
    \A t \in Threads : pc[t] = "raised" =>
        \A h \in 1 .. Len(log[RankOf(t)]) : waited[RankOf(t)][h] = 1

\* the end of the packed prefix of the list of rank r on device d
PrefixEnd(q, d, r) ==
    LET ends == {sl.end : sl \in {x \in pack_slices[q] : x.d = d /\ x.r = r}}
    IN  CHOOSE e \in {0} \cup ends : \A x \in ends : x <= e

\* C18 as stated: whenever a call starts packing into a buffer, every element of
\* the buffer is zero.
BuffersZeroBeforePacking ==
    \A q \in Ranks : \A e \in packed_from[q] : e.buffer = Zeros(Len(e.buffer))

\* C18, amended: the buffers are zeroed once, by the constructor.  The first call
\* that packs into a buffer finds it all zero; a later call finds in the packed
\* prefix what the call before left there (on the owner the reduced gradients it
\* unpacked, on another rank the scaled gradients it sent) and overwrites it;
\* the elements beyond the packed prefix are zero at every call.
BuffersZeroedOnce ==
    \A q \in Ranks : \A e \in packed_from[q] :
        /\ e.call = 1 => e.buffer = Zeros(Len(e.buffer))
        /\ \A last \in {PrefixEnd(q, e.d, e.r)} :
              \A k \in DOMAIN e.buffer : k > last => e.buffer[k] = 0
        /\ e.call >= 2 =>
              \A sl \in PackedPrefix(q, e.d, e.r) :
                  Slice(e.buffer, sl[1], sl[2]) =
                      IF e.r = q THEN pre[q][e.call][sl[3]]
                      ELSE DivTensor(pre[q][e.call][sl[3]], WorldSize)

\* a second call has started packing into a buffer that was not all zero, on the
\* owner of the bucket and on another rank
BuffersZeroedOnceWitness ==
    \E q1, q2 \in Ranks : \E e1 \in packed_from[q1] : \E e2 \in packed_from[q2] :
        /\ e1.call = 2 /\ e2.call = 2
        /\ e1.r = q1 /\ e2.r # q2
        /\ e1.buffer # Zeros(Len(e1.buffer)) /\ e2.buffer # Zeros(Len(e2.buffer))
        /\ PrefixEnd(q1, e1.d, e1.r) < Len(e1.buffer)

\* the processes agree on the reduces they have both submitted: same destination
\* rank, same tensor of the same number of elements, at each position
CollectivesMatch ==
    \A q1, q2 \in Ranks : \A h \in 1 .. Min(Len(log[q1]), Len(log[q2])) :
        /\ log[q1][h].dst = log[q2][h].dst
        /\ log[q1][h].t = log[q2][h].t
        /\ Len(Read(q1, log[q1][h].t)) = Len(Read(q2, log[q2][h].t))

\* every process has made all its calls of dispatch_grads and has returned from
\* the last one (or could not be constructed), and no reduce is pending
AllReturned ==
    /\ \A q \in Ranks :
          pc[q] = "ctor_failed" \/ (pc[q] = "idle" /\ calls[q] = MaxCalls)
    /\ \A q \in Ranks : \A h \in 1 .. Len(log[q]) : h \in done

\* C20: when no process raises, the processes submit the same sequence of reduces
\* (same destination, same element count at each position), so every collective
\* is joined by all ranks; and, a reduce that every rank has joined eventually
\* completing, every dispatch call eventually returns and every collective
\* completes.
MatchAndReturn ==
    /\ []CollectivesMatch
    /\ <>AllReturned

\* every process has returned from its last call, a call over two devices with
\* buckets and direct reduces, one process having had no gradient for a parameter
MatchAndReturnWitness ==
    /\ \A q \in Ranks : Returned(q) /\ calls[q] = MaxCalls /\ log[q] = log[0]
    /\ Len(DeviceSeq) = 2
    /\ \E h1, h2 \in 1 .. Len(log[0]) : log[0][h1].t.kind = "buffer" /\ log[0][h2].t.kind = "grad"
    /\ \E p \in Params : pre[0][1][p] = None /\ pre[1][1][p] # None
    /\ done = 1 .. Len(log[0])

\* ---------------------------------------------------------------- C13
\* the calls of sync_buffers process q has made
SyncCallsOf(q) == {sync_calls[q][k] : k \in 1 .. Len(sync_calls[q])}

\* C13: every call of sync_buffers submits exactly one broadcast per buffer of
\* the model, each from the reference rank, and nothing else is ever broadcast
\* (none at all for a model without buffers); a non-blocking call returns the
\* handles and has waited on none of them; a blocking call returns None when it
\* has waited on every handle exactly once; and a call made by the forward pass
\* is blocking and is made only if broadcast_buffers is set and the model has a
\* buffer.
SyncBuffersContract ==
    \A q \in Ranks :
        /\ Len(bcast_log[q]) = Len(sync_calls[q]) * Len(model_buffers[q])
        /\ \A c \in SyncCallsOf(q) :
            /\ Len(c.handles) = Len(model_buffers[q])
            /\ \A i \in 1 .. Len(c.handles) :
                /\ bcast_log[q][c.handles[i]] = [src |-> GetGlobalRank(reference_rank), buf |-> i]
                /\ \A j \in 1 .. Len(c.handles) : c.handles[i] = c.handles[j] => i = j
            /\ c.non_blocking =>
                /\ c.returned = "requests"
                /\ \A i \in 1 .. Len(c.handles) :
                       c.waits[i] = 0 /\ bcast_waited[q][c.handles[i]] = 0
            /\ ~c.non_blocking /\ c.returned # "pending" =>
                /\ c.returned = "None"
                /\ \A i \in 1 .. Len(c.handles) :
                       /\ c.waits[i] = 1
                       /\ bcast_waited[q][c.handles[i]] = 1
                       /\ c.handles[i] \in bcast_done
            /\ c.returned = "pending" =>
                   \A i \in 1 .. Len(c.handles) : bcast_waited[q][c.handles[i]] <= 1
            /\ c.by_forward => broadcast_buffers /\ Len(model_buffers[q]) > 0 /\ ~c.non_blocking
        /\ (steps[q] > 0 /\ ~ForwardSyncs(q)) => \A c \in SyncCallsOf(q) : ~c.by_forward

\* a process other than the reference rank has had its handles back from a
\* non-blocking call and has returned from the blocking call of a forward pass,
\* on a model with buffers
SyncBuffersContractWitness ==
    \E q \in Ranks :
        /\ GetGlobalRank(reference_rank) # q
        /\ \E c \in SyncCallsOf(q) :
               c.non_blocking /\ c.returned = "requests" /\ Len(c.handles) > 1
        /\ \E c \in SyncCallsOf(q) :
               c.by_forward /\ c.returned = "None" /\ Len(c.handles) > 1
        /\ \A i \in 1 .. Len(model_buffers[q]) :
               model_buffers[q][i] = BufferValue(GetGlobalRank(reference_rank), i)

\* ---------------------------------------------------------------- C14
\* C14: whatever the number n >= 1 of inputs of the forward, backward returns,
\* after dispatch_grads, one gradient per argument of the forward: None for the
\* model, and for input i the gradient that came in for output i.
BackwardMirrorsInputs ==
    \A q \in Ranks : \A k \in 1 .. Len(backward_returns[q]) :
        LET b == backward_returns[q][k]
        IN  /\ Len(b.result) = b.n + 1
            /\ b.result[1] = None
            /\ \A i \in 1 .. b.n : b.result[i + 1] = b.grad_outputs[i]
            /\ calls[q] >= k

====
